---- MODULE Spec2Model ----
(***************************************************************************)
(* Propensity scoring and the opportunity builder of risk-radar            *)
(* (backend/scoring/propensity.py over the tables of backend/models.py),   *)
(* and the company registry: the name normalizers, the resolver and the    *)
(* bulk imports of backend/entity_resolution.py, with the company lookup   *)
(* of backend/ingestion.py.                                                *)
(*                                                                         *)
(* Scores are floats in the source; here they are integers in hundredths   *)
(* of a point (30.0 is 3000).  Days are whole days, as `.days` gives them.  *)
(* A value None stands where the JSON attribute bag can hold a            *)
(* non-numeric value: comparing it with a number raises TypeError.          *)
(* A company name is a sequence of one-character strings; similarity       *)
(* scores are in hundredths as well.  Imports in two processes have one    *)
(* session each; a flushed row is seen by the other session after the      *)
(* commit.                                                                 *)
(***************************************************************************)
EXTENDS Integers, Sequences, FiniteSets, TLC

VARIABLES
    now,        \* datetime.now(), in days
    events,     \* table Event, a sequence indexed by id
    rels,       \* table SubRelationship, a sequence indexed by id
    metrics,    \* table MetricsITA, a sequence of rows
    opps,       \* table TargetOpportunity (committed rows), indexed by id
    pc,         \* per invocation: position inside rebuild_opportunities
    evq,        \* per invocation: the events still to process
    work,       \* per invocation: (relationship, company_id) pairs still to process
    found,      \* per invocation: result of the lookup of an existing opportunity
    pending,    \* per invocation: session.add()ed rows, not yet committed
    dirty,      \* per invocation: in-place changes of committed rows, not yet committed
    results,    \* per invocation: the results dict
    window,     \* per invocation: the (since, until) arguments
    calls,      \* number of invocations started
    hist,       \* observation: what the last completed invocation saw and stored
    out,        \* observation: the last result of calculate_propensity_score
                \* or of a call of the resolver
    registry,   \* table Company, a sequence indexed by id
    aliases,    \* table CompanyAlias, a sequence of rows
    projects,   \* table Project, a sequence indexed by id
    imp,        \* the bulk import in progress: its rows, position and results
    sessions    \* per process: an import running beside the other process's

vars == <<now, events, rels, metrics, opps, pc, evq, work, found, pending,
          dirty, results, window, calls, hist, out, registry, aliases,
          projects, imp, sessions>>

storeVars == <<events, rels, metrics, registry, aliases, projects, imp, sessions>>
procVars == <<pc, evq, work, found, pending, dirty, results, window>>

----------------------------------------------------------------------------
(* Bounds of the model *)

MaxCalls == 2
MaxRels == 2
MaxFill == 4
MaxTicks == 1

(* Sentinels *)
None == -1
Raised == -1
NoId == 0

Procs == {1, 2}

(* the invocations of the one-at-a-time specification *)
SeqProcs == {1}

(* Company ids: 1 is the subcontractor, 2 and 3 are GCs/Owners *)
SubId == 1
Companies == {1, 2, 3}
Targets == {2, 3}

Scale == 100

----------------------------------------------------------------------------
(* Configuration: the fallback of _load_config *)

HalfLife == 90
FatalityWeight == 5000
CatastropheWeight == 3500
SeriousWeight == 2500
WillfulDefault == 2000
OtherDefault == 500
DefaultBenchmark == 40
HighRiskTrades == {"steel erection", "roofing", "excavation"}
NegativeKeywords == {"lawsuit", "violation", "death", "fatality", "accident",
                     "injury", "default", "delay", "penalty"}
QualifyingTypes == {"inspection", "citation", "accident"}

MinSeverity == 15
(* a floor of 20 points in place of the 30 of the source *)
MinScore_Lower == 20 * Scale
MinScore == 3000
HighPenalty == 50000
DescPenalty == 100000
ManyViolations == 5
FrequencyDays == 730

----------------------------------------------------------------------------
(* floor(3000 * exp(-d / 90)) for d = 31 .. 180 *)
RecencyTable ==
  << 2125, 2102, 2079, 2056, 2033, 2010, 1988, 1966, 1945, 1923,
     1902, 1881, 1860, 1839, 1819, 1799, 1779, 1759, 1740, 1721,
     1702, 1683, 1664, 1646, 1628, 1610, 1592, 1574, 1557, 1540,
     1523, 1506, 1489, 1473, 1457, 1440, 1424, 1409, 1393, 1378,
     1363, 1347, 1333, 1318, 1303, 1289, 1275, 1261, 1247, 1233,
     1219, 1206, 1192, 1179, 1166, 1153, 1141, 1128, 1115, 1103,
     1091, 1079, 1067, 1055, 1043, 1032, 1021, 1009, 998, 987,
     976, 965, 955, 944, 934, 923, 913, 903, 893, 883,
     873, 864, 854, 845, 835, 826, 817, 808, 799, 790,
     782, 773, 764, 756, 748, 739, 731, 723, 715, 707,
     699, 692, 684, 676, 669, 661, 654, 647, 640, 633,
     626, 619, 612, 605, 598, 592, 585, 579, 572, 566,
     560, 554, 548, 541, 536, 530, 524, 518, 512, 507,
     501, 495, 490, 484, 479, 474, 469, 463, 458, 453,
     448, 443, 438, 433, 429, 424, 419, 415, 410, 406 >>

Min(a, b) == IF a <= b THEN a ELSE b

----------------------------------------------------------------------------
(* The score components *)

_days_ago(date) == now - date

(* variant: beyond the horizon the decayed value of the horizon is kept *)
_calculate_recency_score_Clamped(occurred_on) ==
    LET days_ago == now - occurred_on
        max_days == HalfLife * 2
    IN  IF days_ago <= 30 THEN 30 * Scale
        ELSE RecencyTable[Min(days_ago, max_days) - 30]

_calculate_recency_score(occurred_on) ==
    LET days_ago == now - occurred_on
        max_days == HalfLife * 2
    IN  IF days_ago <= 30 THEN 30 * Scale
        ELSE IF days_ago <= max_days THEN RecencyTable[days_ago - 30]
        ELSE 0

(* variant: the tiers that match are added up *)
_calculate_severity_score_Summed(event) ==
    IF ~event.fatality /\ ~event.catastrophe
       /\ event.severity_type \notin {"Willful", "Serious"}
       /\ (event.penalty = None \/ (event.penalty <= HighPenalty /\ event.violations = None))
    THEN Raised
    ELSE LET total ==
               (IF event.fatality THEN FatalityWeight ELSE 0)
             + (IF event.catastrophe THEN CatastropheWeight ELSE 0)
             + (IF event.severity_type = "Willful" THEN WillfulDefault ELSE 0)
             + (IF event.severity_type = "Serious" THEN SeriousWeight ELSE 0)
             + (IF event.penalty # None /\ event.penalty > HighPenalty THEN 20 * Scale ELSE 0)
             + (IF event.violations # None /\ event.violations >= ManyViolations
                THEN 15 * Scale ELSE 0)
         IN  IF total = 0 THEN OtherDefault ELSE total

(* variant: penalty is read without its default, so an event without one
   raises where the penalty is compared *)
_calculate_severity_score_NoDefault(event) ==
    IF event.fatality THEN FatalityWeight
    ELSE IF event.catastrophe THEN CatastropheWeight
    ELSE IF event.severity_type = "Willful" THEN WillfulDefault
    ELSE IF event.severity_type = "Serious" THEN SeriousWeight
    ELSE IF event.penalty = None \/ event.penalty = 0 THEN Raised
    ELSE IF event.penalty > HighPenalty THEN 20 * Scale
    ELSE IF event.violations = None THEN Raised
    ELSE IF event.violations >= ManyViolations THEN 15 * Scale
    ELSE OtherDefault

_calculate_severity_score(event) ==
    IF event.fatality THEN FatalityWeight
    ELSE IF event.catastrophe THEN CatastropheWeight
    ELSE IF event.severity_type = "Willful" THEN WillfulDefault
    ELSE IF event.severity_type = "Serious" THEN SeriousWeight
    ELSE IF event.penalty = None THEN Raised
    ELSE IF event.penalty > HighPenalty THEN 20 * Scale
    ELSE IF event.violations = None THEN Raised
    ELSE IF event.violations >= ManyViolations THEN 15 * Scale
    ELSE OtherDefault

(* _get_severity_description: "" for None, "raise" where a comparison raises *)
_get_severity_description(event) ==
    IF event.fatality THEN "Fatality incident"
    ELSE IF event.catastrophe THEN "Catastrophic incident"
    ELSE IF event.severity_type = "Willful" THEN "Willful OSHA violation"
    ELSE IF event.penalty = None THEN "raise"
    ELSE IF event.penalty > DescPenalty THEN "High penalty"
    ELSE IF event.violations = None THEN "raise"
    ELSE IF event.violations >= ManyViolations THEN "Multiple violations"
    ELSE ""

_calculate_frequency_score(company, driver_event) ==
    LET cutoff_date == now - FrequencyDays
        sub_id == driver_event.company_id
        count == Cardinality({i \in 1..Len(events) :
                     /\ events[i].company_id = sub_id
                     /\ events[i].occurred_on >= cutoff_date
                     /\ events[i].event_type \in QualifyingTypes})
    IN  IF count >= 5 THEN 15 * Scale
        ELSE IF count >= 3 THEN 10 * Scale
        ELSE IF count >= 2 THEN 5 * Scale
        ELSE 0

(* dart_rate is in tenths; 0 stands for both None and 0.0, which `not` treats alike *)
_calculate_ita_score(company, driver_event) ==
    LET sub_id == driver_event.company_id
        rows == {i \in 1..Len(metrics) : metrics[i].sub_id = sub_id}
    IN  IF rows = {} THEN 0
        ELSE LET first == CHOOSE i \in rows :
                              \A j \in rows : \/ metrics[j].year < metrics[i].year
                                              \/ (metrics[j].year = metrics[i].year /\ i <= j)
                 dart_rate == metrics[first].dart_rate
                 benchmark == DefaultBenchmark
             IN  IF dart_rate = 0 THEN 0
                 ELSE IF dart_rate * 10 >= 20 * benchmark THEN 15 * Scale
                 ELSE IF dart_rate * 10 >= 15 * benchmark THEN 10 * Scale
                 ELSE IF dart_rate * 10 >= 12 * benchmark THEN 5 * Scale
                 ELSE 0

(* trade: the lower-cased trade of the relationship, "" for None;
   event.trade_text: the narrative or the keywords mention a high-risk trade *)
_calculate_trade_risk_score(company, driver_event) ==
    LET sub_id == driver_event.company_id
    IN  IF \E i \in 1..Len(rels) : rels[i].sub_id = sub_id /\ rels[i].trade \in HighRiskTrades
        THEN 5 * Scale
        ELSE IF driver_event.trade_text THEN 3 * Scale
        ELSE 0

(* variant: a single relationship scores 2 whatever its detail *)
_calculate_relationship_score_NoDetail(company, driver_event) ==
    LET sub_id == driver_event.company_id
        relationships == {i \in 1..Len(rels) :
                             /\ rels[i].sub_id = sub_id
                             /\ (rels[i].gc_id = company \/ rels[i].owner_id = company)}
    IN  IF Cardinality(relationships) >= 2 THEN 5 * Scale
        ELSE IF Cardinality(relationships) = 1 THEN 2 * Scale
        ELSE 0

_calculate_relationship_score(company, driver_event) ==
    LET sub_id == driver_event.company_id
        relationships == {i \in 1..Len(rels) :
                             /\ rels[i].sub_id = sub_id
                             /\ (rels[i].gc_id = company \/ rels[i].owner_id = company)}
    IN  IF Cardinality(relationships) >= 2 THEN 5 * Scale
        ELSE IF Cardinality(relationships) = 1
             THEN LET rel == rels[CHOOSE i \in relationships : TRUE]
                  IN  IF rel.project_id # NoId /\ rel.start_date /\ rel.end_date
                      THEN 4 * Scale ELSE 2 * Scale
        ELSE 0

(* title and summary: the negative keywords each text contains *)
_calculate_news_score(event) ==
    IF event.event_type # "news" THEN 0
    ELSE LET score == 2 * Scale * Cardinality(NegativeKeywords \cap event.title)
                      + Scale * Cardinality((NegativeKeywords \cap event.summary) \ event.title)
         IN  Min(score, 5 * Scale)

(* variant: the frequency component is looked at first *)
_determine_talk_track_FrequencyFirst(score_components) ==
    IF score_components.frequency > 10 * Scale THEN "Trend analysis & prevention"
    ELSE IF score_components.severity > 20 * Scale THEN "Post-incident stabilization"
    ELSE IF score_components.ita > 10 * Scale THEN "Portfolio risk benchmarking"
    ELSE "Compliance gap assessment"

_determine_talk_track(score_components) ==
    IF score_components.severity > 20 * Scale THEN "Post-incident stabilization"
    ELSE IF score_components.frequency > 10 * Scale THEN "Trend analysis & prevention"
    ELSE IF score_components.ita > 10 * Scale THEN "Portfolio risk benchmarking"
    ELSE "Compliance gap assessment"

ScoreComponents(company, driver_event) ==
    [recency      |-> _calculate_recency_score(driver_event.occurred_on),
     severity     |-> _calculate_severity_score(driver_event),
     frequency    |-> _calculate_frequency_score(company, driver_event),
     ita          |-> _calculate_ita_score(company, driver_event),
     trade_risk   |-> _calculate_trade_risk_score(company, driver_event),
     relationship |-> _calculate_relationship_score(company, driver_event),
     news         |-> _calculate_news_score(driver_event)]

TotalOf(c) == c.recency + c.severity + c.frequency + c.ita + c.trade_risk
              + c.relationship + c.news

(* variant: the total is returned without the cap *)
calculate_propensity_score_Uncapped(company, driver_event) ==
    LET c == ScoreComponents(company, driver_event)
    IN  IF c.severity = Raised \/ _get_severity_description(driver_event) = "raise"
        THEN [raised |-> TRUE, score |-> 0, talk_track |-> "", components |-> c]
        ELSE [raised |-> FALSE,
              score |-> TotalOf(c),
              talk_track |-> _determine_talk_track(c),
              components |-> c]

calculate_propensity_score(company, driver_event) ==
    LET c == ScoreComponents(company, driver_event)
    IN  IF c.severity = Raised \/ _get_severity_description(driver_event) = "raise"
        THEN [raised |-> TRUE, score |-> 0, talk_track |-> "", components |-> c]
        ELSE [raised |-> FALSE,
              score |-> Min(TotalOf(c), 100 * Scale),
              talk_track |-> _determine_talk_track(c),
              components |-> c]

----------------------------------------------------------------------------
(* Rows of the tables *)

Ev(type, occurred, sev, fat, cat, stype, pen, viol, ttext, title, summary) ==
    [event_type |-> type, company_id |-> SubId, occurred_on |-> occurred,
     severity_score |-> sev, fatality |-> fat, catastrophe |-> cat,
     severity_type |-> stype, penalty |-> pen, violations |-> viol,
     trade_text |-> ttext, title |-> title, summary |-> summary]

Rel(gc, owner, project, sd, ed, trade) ==
    [gc_id |-> gc, owner_id |-> owner, sub_id |-> SubId, project_id |-> project,
     start_date |-> sd, end_date |-> ed, trade |-> trade]

Metric(year, dart) == [sub_id |-> SubId, year |-> year, dart_rate |-> dart]

Now0 == 1000

RECURSIVE SeqsUpTo(_, _)
SeqsUpTo(S, n) ==
    IF n = 0 THEN {<<>>}
    ELSE LET shorter == SeqsUpTo(S, n - 1)
         IN  shorter \cup {Append(s, x) : s \in {t \in shorter : Len(t) = n - 1}, x \in S}

RelShapes ==
    { Rel(2, NoId, 1, TRUE, TRUE, "steel erection"),
      Rel(3, 2, NoId, FALSE, FALSE, ""),
      Rel(2, 2, 1, TRUE, TRUE, "plumbing") }

(* a fatality 12 days old; a Willful citation 100 days old and one 200 days
   old; a citation whose penalty is not a number; a fatality whose
   adapter-assigned severity is under the floor *)
EventProfiles ==
    << Ev("accident", Now0 - 12, 95, TRUE, FALSE, "", 0, 0, FALSE, {}, {}),
       Ev("citation", Now0 - 100, 40, FALSE, FALSE, "Willful", 0, 2, FALSE, {}, {}),
       Ev("citation", Now0 - 200, 40, FALSE, FALSE, "Willful", 0, 2, FALSE, {}, {}),
       Ev("citation", Now0 - 30, 50, FALSE, FALSE, "", None, 3, FALSE, {}, {}),
       Ev("accident", Now0 - 10, 10, TRUE, FALSE, "", 0, 0, FALSE, {}, {}) >>

(* table Event: two rows, in either id order the same incidents *)
EventTables ==
    { <<EventProfiles[ij[1]], EventProfiles[ij[2]]>> :
        ij \in {x \in (1..Len(EventProfiles)) \X (1..Len(EventProfiles)) : x[1] <= x[2]} }

(* The (since, until) arguments a caller passes; None for an omitted bound *)
Windows == { <<None, None>>, <<Now0 - 100, None>>, <<None, Now0 - 100>> }

TickDays == {170}

----------------------------------------------------------------------------
(* The session's view of table TargetOpportunity *)

NoneFound == [kind |-> "none", idx |-> 0]

EmptyResults == [created |-> 0, updated |-> 0, errors |-> <<>>]

EmptyHist ==
    [start |-> [p \in Procs |-> <<>>],
     prev |-> [valid |-> FALSE, now |-> 0, window |-> <<None, None>>, opps |-> <<>>],
     cur |-> [valid |-> FALSE, now |-> 0, window |-> <<None, None>>, opps |-> <<>>],
     ticks |-> 0]

NoOut == [valid |-> FALSE]

Running(p) == pc[p] \in {"event", "score", "upsert"}

(* the select with the time window left out *)
Selected_AnyTime(w) ==
    {i \in 1..Len(events) : events[i].severity_score >= MinSeverity}

(* select(Event).where(severity_score >= 15, since <= occurred_on <= until) *)
Selected(w) ==
    {i \in 1..Len(events) :
        /\ events[i].severity_score >= MinSeverity
        /\ (w[1] = None \/ events[i].occurred_on >= w[1])
        /\ (w[2] = None \/ events[i].occurred_on <= w[2])}

(* order_by(Event.occurred_on.desc()); rows of equal date in id order *)
RECURSIVE OrderDesc(_)
OrderDesc(S) ==
    IF S = {} THEN <<>>
    ELSE LET m == CHOOSE i \in S :
                      \A j \in S : \/ events[j].occurred_on < events[i].occurred_on
                                   \/ (events[j].occurred_on = events[i].occurred_on /\ i <= j)
         IN  <<m>> \o OrderDesc(S \ {m})

(* the loops over relationships and over [gc_id, owner_id], skipping null
   and unknown company ids: the <<relationship, company_id>> pairs in order *)
RECURSIVE WorkFrom(_, _)
WorkFrom(sub_id, r) ==
    IF r > Len(rels) THEN <<>>
    ELSE (IF rels[r].sub_id = sub_id
          THEN SelectSeq(<< <<r, rels[r].gc_id>>, <<r, rels[r].owner_id>> >>,
                         LAMBDA it : it[2] # NoId /\ it[2] \in Companies)
          ELSE <<>>) \o WorkFrom(sub_id, r + 1)

(* the lookup of an existing opportunity: committed rows first, then the
   rows this session has added *)
(* variant: the lookup filters on owner_id whatever the role *)
Matches_OwnerOnly(row, rel, company_id, event_id) ==
    /\ row.driver_event_id = event_id
    /\ row.owner_id = company_id

Matches(row, rel, company_id, event_id) ==
    /\ row.driver_event_id = event_id
    /\ IF rel.gc_id = company_id THEN row.gc_id = company_id
                                 ELSE row.owner_id = company_id

Lookup(p, rel, company_id, event_id) ==
    LET c == {i \in 1..Len(opps) : Matches(opps[i], rel, company_id, event_id)}
        n == {i \in 1..Len(pending[p]) : Matches(pending[p][i], rel, company_id, event_id)}
    IN  IF c # {} THEN [kind |-> "committed", idx |-> CHOOSE i \in c : \A j \in c : i <= j]
        ELSE IF n # {} THEN [kind |-> "pending", idx |-> CHOOSE i \in n : \A j \in n : i <= j]
        ELSE NoneFound

NewOpportunity(rel, company_id, event_id, score, talk_track) ==
    [gc_id |-> IF rel.gc_id = company_id THEN company_id ELSE NoId,
     owner_id |-> IF rel.owner_id = company_id THEN company_id ELSE NoId,
     driver_event_id |-> event_id,
     propensity_score |-> score,
     confidence |-> 80,
     recommended_talk_track |-> talk_track]

Overwrite(row, score, talk_track) ==
    [row EXCEPT !.propensity_score = score, !.recommended_talk_track = talk_track]

(* the UPDATEs of a commit, applied to whatever rows are committed by then *)
RECURSIVE ApplyDirty(_, _)
ApplyDirty(table, d) ==
    IF d = <<>> THEN table
    ELSE ApplyDirty([table EXCEPT ![Head(d).idx] =
                        Overwrite(@, Head(d).score, Head(d).talk_track)], Tail(d))

----------------------------------------------------------------------------
(* rebuild_opportunities, one invocation per element of Procs.  Each
   invocation has its own session; session.commit() is the only write to
   the committed table, and it is atomic. *)

(* the end of one step of the loop over the pairs of the current event *)
Advance(p, rest) ==
    /\ work' = [work EXCEPT ![p] = rest]
    /\ IF rest = <<>>
       THEN /\ evq' = [evq EXCEPT ![p] = Tail(@)]
            /\ pc' = [pc EXCEPT ![p] = "event"]
       ELSE /\ evq' = evq
            /\ pc' = [pc EXCEPT ![p] = "score"]

(* entry: the select of the qualifying events *)
Begin(p, w) ==
    /\ ~Running(p)
    /\ calls < MaxCalls
    /\ calls' = calls + 1
    /\ window' = [window EXCEPT ![p] = w]
    /\ results' = [results EXCEPT ![p] = EmptyResults]
    /\ evq' = [evq EXCEPT ![p] = OrderDesc(Selected(w))]
    /\ work' = [work EXCEPT ![p] = <<>>]
    /\ found' = [found EXCEPT ![p] = NoneFound]
    /\ pending' = [pending EXCEPT ![p] = <<>>]
    /\ dirty' = [dirty EXCEPT ![p] = <<>>]
    /\ pc' = [pc EXCEPT ![p] = "event"]
    /\ hist' = [hist EXCEPT !.start[p] = opps]
    /\ UNCHANGED <<now, storeVars, opps, out>>

(* invocations run one at a time *)
Start(p) ==
    /\ \A q \in Procs : ~Running(q)
    /\ \E w \in Windows : Begin(p, w)

(* invocations may overlap *)
StartConcurrent(p) ==
    \E w \in Windows : Begin(p, w)

(* top of `for event in events`: the select of the relationships *)
NextEvent(p) ==
    /\ pc[p] = "event"
    /\ evq[p] # <<>>
    /\ LET event == events[Head(evq[p])]
           items == WorkFrom(event.company_id, 1)
       IN  IF items = <<>>
           THEN /\ evq' = [evq EXCEPT ![p] = Tail(@)]
                /\ UNCHANGED <<work, pc>>
           ELSE /\ work' = [work EXCEPT ![p] = items]
                /\ pc' = [pc EXCEPT ![p] = "score"]
                /\ evq' = evq
    /\ UNCHANGED <<now, storeVars, opps, found, pending, dirty, results, window,
                   calls, hist, out>>

(* variant: no handler around one event, so the exception reaches the outer
   handler, which records it, rolls back and returns *)
ScorePair_Propagates(p) ==
    /\ pc[p] = "score"
    /\ work[p] # <<>>
    /\ LET event_id == Head(evq[p])
           item == Head(work[p])
           r == calculate_propensity_score(item[2], events[event_id])
       IN  IF r.raised
           THEN /\ results' = [results EXCEPT ![p].errors = Append(@, event_id)]
                /\ work' = [work EXCEPT ![p] = <<>>]
                /\ evq' = [evq EXCEPT ![p] = <<>>]
                /\ pending' = [pending EXCEPT ![p] = <<>>]
                /\ dirty' = [dirty EXCEPT ![p] = <<>>]
                /\ pc' = [pc EXCEPT ![p] = "done"]
                /\ hist' = [hist EXCEPT !.prev = hist.cur,
                                        !.cur = [valid |-> TRUE, now |-> now,
                                                 window |-> window[p], opps |-> opps]]
                /\ found' = found
           ELSE IF r.score >= MinScore
           THEN /\ found' = [found EXCEPT ![p] =
                                Lookup(p, rels[item[1]], item[2], event_id)]
                /\ pc' = [pc EXCEPT ![p] = "upsert"]
                /\ UNCHANGED <<results, work, evq, pending, dirty, hist>>
           ELSE /\ Advance(p, Tail(work[p]))
                /\ UNCHANGED <<results, found, pending, dirty, hist>>
    /\ UNCHANGED <<now, storeVars, opps, window, calls, out>>

(* one (relationship, company_id) pair: the score, the threshold and the
   lookup of the existing opportunity; an exception ends the event *)
ScorePair(p) ==
    /\ pc[p] = "score"
    /\ work[p] # <<>>
    /\ LET event_id == Head(evq[p])
           item == Head(work[p])
           r == calculate_propensity_score(item[2], events[event_id])
       IN  IF r.raised
           THEN /\ results' = [results EXCEPT ![p].errors = Append(@, event_id)]
                /\ Advance(p, <<>>)
                /\ found' = found
           ELSE IF r.score >= MinScore
           THEN /\ found' = [found EXCEPT ![p] =
                                Lookup(p, rels[item[1]], item[2], event_id)]
                /\ pc' = [pc EXCEPT ![p] = "upsert"]
                /\ UNCHANGED <<results, work, evq>>
           ELSE /\ Advance(p, Tail(work[p]))
                /\ UNCHANGED <<results, found>>
    /\ UNCHANGED <<now, storeVars, opps, pending, dirty, window, calls, hist, out>>

(* the update in place or the session.add of the new opportunity *)
Upsert(p) ==
    /\ pc[p] = "upsert"
    /\ LET event_id == Head(evq[p])
           item == Head(work[p])
           r == calculate_propensity_score(item[2], events[event_id])
       IN  /\ CASE found[p].kind = "committed" ->
                     /\ dirty' = [dirty EXCEPT ![p] = Append(@,
                                     [idx |-> found[p].idx, score |-> r.score,
                                      talk_track |-> r.talk_track])]
                     /\ pending' = pending
                     /\ results' = [results EXCEPT ![p].updated = @ + 1]
                [] found[p].kind = "pending" ->
                     /\ pending' = [pending EXCEPT ![p][found[p].idx] =
                                       Overwrite(@, r.score, r.talk_track)]
                     /\ dirty' = dirty
                     /\ results' = [results EXCEPT ![p].updated = @ + 1]
                [] OTHER ->
                     /\ pending' = [pending EXCEPT ![p] = Append(@,
                                       NewOpportunity(rels[item[1]], item[2], event_id,
                                                      r.score, r.talk_track))]
                     /\ dirty' = dirty
                     /\ results' = [results EXCEPT ![p].created = @ + 1]
           /\ found' = [found EXCEPT ![p] = NoneFound]
           /\ Advance(p, Tail(work[p]))
    /\ UNCHANGED <<now, storeVars, opps, window, calls, hist, out>>

(* session.commit() after the loop, and the return of results *)
Commit(p) ==
    /\ pc[p] = "event"
    /\ evq[p] = <<>>
    /\ opps' = ApplyDirty(opps, dirty[p]) \o pending[p]
    /\ pending' = [pending EXCEPT ![p] = <<>>]
    /\ dirty' = [dirty EXCEPT ![p] = <<>>]
    /\ pc' = [pc EXCEPT ![p] = "done"]
    /\ hist' = [hist EXCEPT !.prev = hist.cur,
                            !.cur = [valid |-> TRUE, now |-> now,
                                     window |-> window[p], opps |-> opps']]
    /\ UNCHANGED <<now, storeVars, evq, work, found, results, window, calls, out>>

(* variant: every incident is committed as it finishes, so an abort keeps
   what the session holds *)
Abort_Commits(p) ==
    /\ pc[p] = "event"
    /\ evq[p] # <<>>
    /\ opps' = ApplyDirty(opps, dirty[p]) \o pending[p]
    /\ pending' = [pending EXCEPT ![p] = <<>>]
    /\ dirty' = [dirty EXCEPT ![p] = <<>>]
    /\ pc' = [pc EXCEPT ![p] = "aborted"]
    /\ UNCHANGED <<now, storeVars, evq, work, found, results, window,
                   calls, hist, out>>

(* the caller gives the invocation up between two incidents: the session is
   closed without a commit, which rolls its changes back *)
Abort(p) ==
    /\ pc[p] = "event"
    /\ evq[p] # <<>>
    /\ pending' = [pending EXCEPT ![p] = <<>>]
    /\ dirty' = [dirty EXCEPT ![p] = <<>>]
    /\ pc' = [pc EXCEPT ![p] = "aborted"]
    /\ UNCHANGED <<now, storeVars, opps, evq, work, found, results, window,
                   calls, hist, out>>

(* time passes between invocations *)
Tick ==
    /\ \A q \in Procs : ~Running(q)
    /\ hist.ticks < MaxTicks
    /\ calls > 0
    /\ \E d \in TickDays : now' = now + d
    /\ hist' = [hist EXCEPT !.ticks = @ + 1]
    /\ UNCHANGED <<storeVars, opps, procVars, calls, out>>

(* no import has been started *)
IdleImport ==
    [pc |-> "idle", kind |-> "", batch |-> <<>>, next |-> 1,
     results |-> [processed |-> 0, created |-> 0, errors |-> <<>>]]

(* a session of an import that runs beside another one: the names of its row
   still to be resolved, the ids resolved, and the companies it flushed and
   did not commit yet *)
IdleSession ==
    [pc |-> "idle", todo |-> <<>>, ids |-> <<>>, flushed |-> {}, rel |-> NoId]

(* the registry tables are empty *)
InitResolver ==
    /\ registry = <<>>
    /\ aliases = <<>>
    /\ projects = <<>>
    /\ imp = IdleImport
    /\ sessions = [p \in Procs |-> IdleSession]

InitProcs ==
    /\ pc = [p \in Procs |-> "idle"]
    /\ evq = [p \in Procs |-> <<>>]
    /\ work = [p \in Procs |-> <<>>]
    /\ found = [p \in Procs |-> NoneFound]
    /\ pending = [p \in Procs |-> <<>>]
    /\ dirty = [p \in Procs |-> <<>>]
    /\ results = [p \in Procs |-> EmptyResults]
    /\ window = [p \in Procs |-> <<None, None>>]
    /\ calls = 0
    /\ hist = EmptyHist
    /\ out = NoOut

Init ==
    /\ now = Now0
    /\ events \in EventTables
    /\ rels \in SeqsUpTo(RelShapes, MaxRels)
    /\ metrics = <<>>
    /\ opps = <<>>
    /\ InitProcs
    /\ InitResolver

Next ==
    \/ \E p \in SeqProcs : Start(p)
    \/ \E p \in SeqProcs : NextEvent(p)
    \/ \E p \in SeqProcs : ScorePair(p)
    \/ \E p \in SeqProcs : Upsert(p)
    \/ \E p \in SeqProcs : Commit(p)
    \/ \E p \in SeqProcs : Abort(p)
    \/ Tick

Spec == Init /\ [][Next]_vars

NextConcurrent ==
    \/ \E p \in Procs : StartConcurrent(p)
    \/ \E p \in Procs : NextEvent(p)
    \/ \E p \in Procs : ScorePair(p)
    \/ \E p \in Procs : Upsert(p)
    \/ \E p \in Procs : Commit(p)

SpecConcurrent == Init /\ [][NextConcurrent]_vars

----------------------------------------------------------------------------
(* calculate_propensity_score on its own: one driver event (id 1) over a
   store drawn from bounded sets, scored for each target company *)

ScoreDays == {12, 31, 100, 181}

Filler == Ev("inspection", Now0 - 50, 20, FALSE, FALSE, "", 0, 0, FALSE, {}, {})

FillCounts == {0, 2, MaxFill}

ScoreRels ==
    { <<>>,
      <<Rel(2, NoId, 1, TRUE, TRUE, "steel erection")>>,
      <<Rel(2, NoId, NoId, TRUE, FALSE, ""), Rel(3, 2, 1, TRUE, TRUE, "plumbing")>> }

ScoreMetrics ==
    { <<>>, <<Metric(2023, 80)>>, <<Metric(2022, 80), Metric(2023, 50)>> }

(* event type, negative keywords in the title, negative keywords in the summary *)
NewsVariants ==
    { <<"accident", {"death"}, {}>>,
      <<"news", {"lawsuit", "death", "injury"}, {"delay"}>>,
      <<"news", {"delay"}, {"delay", "penalty"}>>,
      <<"news", {}, {}>> }

DriverEvents ==
    { Ev(v[1], Now0 - d, 50, fat, cat, stype, pen, viol, ttext, v[2], v[3]) :
        v \in NewsVariants, d \in ScoreDays, fat \in BOOLEAN, cat \in BOOLEAN,
        stype \in {"Willful", "Serious", "Other-Than-Serious", ""}, pen \in {None, 0, 60000},
        viol \in {None, 0, 2, 10}, ttext \in BOOLEAN }

InitScore ==
    /\ now = Now0
    /\ \E drv \in DriverEvents, n \in FillCounts :
           events = <<drv>> \o [i \in 1..n |-> Filler]
    /\ rels \in ScoreRels
    /\ metrics \in ScoreMetrics
    /\ opps = <<>>
    /\ InitProcs
    /\ InitResolver

DoScore(company) ==
    /\ out' = [valid |-> TRUE, company |-> company, event |-> events[1],
               result |-> calculate_propensity_score(company, events[1])]
    /\ UNCHANGED <<now, storeVars, opps, procVars, calls, hist>>

NextScore == \E company \in Targets : DoScore(company)

SpecScore == InitScore /\ [][NextScore]_vars

Scored == out.valid /\ ~out.result.raised

----------------------------------------------------------------------------
(* C8: calculate_propensity_score returns a total between 0 and 100
   inclusive, whatever the component values are *)
C8_TotalWithinRange ==
    Scored => (out.result.score >= 0 /\ out.result.score <= 100 * Scale)

(* a score whose components sum to more than 100 *)
C8_Witness ==
    /\ Scored
    /\ TotalOf(out.result.components) > 100 * Scale
    /\ out.result.score = 100 * Scale

(* C9: with the default configuration every component stays within its
   stated cap: recency 30, severity 25, frequency 15, lagging metric 15,
   trade risk 5, relationship 5, media sentiment 5 *)
C9_ComponentCaps ==
    Scored =>
        LET c == out.result.components
        IN  /\ c.recency <= 30 * Scale
            /\ c.severity <= 25 * Scale
            /\ c.frequency <= 15 * Scale
            /\ c.ita <= 15 * Scale
            /\ c.trade_risk <= 5 * Scale
            /\ c.relationship <= 5 * Scale
            /\ c.news <= 5 * Scale

(* C10: the severity checks run in the order fatality, catastrophe, Willful,
   Serious, high penalty, violations >= 5, and the first that matches alone
   gives the severity component *)
C10_SeverityFirstMatch ==
    out.valid =>
        LET e == out.event
            s == out.result.components.severity
            early == e.fatality \/ e.catastrophe \/ e.severity_type \in {"Willful", "Serious"}
        IN  /\ e.fatality => s = 50 * Scale
            /\ (~e.fatality /\ e.catastrophe) => s = 35 * Scale
            /\ (~e.fatality /\ ~e.catastrophe /\ e.severity_type = "Willful") => s = 20 * Scale
            /\ (~e.fatality /\ ~e.catastrophe /\ e.severity_type = "Serious") => s = 25 * Scale
            /\ (~early /\ e.penalty # None /\ e.penalty > 50000) => s = 20 * Scale
            /\ (~early /\ e.penalty # None /\ e.penalty <= 50000
                  /\ e.violations # None /\ e.violations >= 5) => s = 15 * Scale

(* a fatality with ten violations scores the fatality value *)
C10_Witness ==
    /\ out.valid
    /\ out.event.fatality
    /\ out.event.violations = 10
    /\ out.result.components.severity = 50 * Scale

----------------------------------------------------------------------------
(* The opportunity builder *)

(* the company an opportunity targets: the one held in gc_id or owner_id *)
OppTargets(row) == {row.gc_id, row.owner_id} \ {NoId}

SamePair(a, b) ==
    /\ a.driver_event_id = b.driver_event_id
    /\ OppTargets(a) \cap OppTargets(b) # {}

NoDuplicates(table) ==
    \A i, j \in 1..Len(table) : i # j => ~SamePair(table[i], table[j])

(* some company is the GC of one relationship and, in another relationship
   with a different GC, the Owner *)
DualRole ==
    \E i, j \in 1..Len(rels) :
        /\ rels[i].gc_id # NoId
        /\ rels[j].owner_id = rels[i].gc_id
        /\ rels[j].gc_id # rels[i].gc_id

(* C1: after any sequence of rebuilds run one at a time the store holds at
   most one opportunity per (target company, driver incident) pair, also
   when a company is the GC in one relationship and the Owner in another *)
C1_AtMostOnePerPair == NoDuplicates(opps)

(* C2: two rebuilds whose lookup and insert steps interleave never leave two
   opportunities for the same (target company, driver incident) pair; stated
   for the stores on which one-at-a-time rebuilds leave none *)
C2_NoDuplicateUnderRace == (~DualRole) => NoDuplicates(opps)

----------------------------------------------------------------------------
(* What one invocation has to do, read off the tables *)

(* the GCs/Owners of the subcontractor of event e *)
PairsOf(e) ==
    LET items == WorkFrom(events[e].company_id, 1)
    IN  {items[k][2] : k \in 1..Len(items)}

(* scoring event e raises *)
Raises(e) ==
    LET items == WorkFrom(events[e].company_id, 1)
    IN  items # <<>> /\ calculate_propensity_score(items[1][2], events[e]).raised

ScoreFor(c, e) == calculate_propensity_score(c, events[e])

(* the (event, target) pairs of window w that score at least 30 *)
QualifyingPairs(w) ==
    {<<e, c>> \in Selected(w) \X Companies :
        c \in PairsOf(e) /\ ~Raises(e) /\ ScoreFor(c, e).score >= MinScore}

RowsFor(table, e, c) ==
    {i \in 1..Len(table) : table[i].driver_event_id = e /\ c \in OppTargets(table[i])}

(* invocation p has returned and the clock has not moved since its commit *)
Returned(p) == pc[p] = "done" /\ hist.cur.valid /\ hist.cur.now = now

(* the invocation before p's ran to its commit over the same window, and
   the clock has not moved since *)
Repeated(p) ==
    /\ pc[p] = "done"
    /\ hist.prev.valid
    /\ hist.prev.now = hist.cur.now
    /\ hist.prev.window = hist.cur.window

(* C3: with the clock and the data unchanged, a second rebuild over the same
   window creates nothing and leaves every stored opportunity, its score and
   its talk-track as the first call stored them *)
C3_IdempotentRebuild ==
    \A p \in SeqProcs :
        Repeated(p) => (results[p].created = 0 /\ opps = hist.prev.opps)

(* a repeated rebuild that found and updated opportunities *)
C3_Witness ==
    \E p \in SeqProcs :
        Repeated(p) /\ results[p].updated > 0 /\ opps # <<>> /\ results[p].created = 0

(* C4: an incident whose processing raises is recorded in errors by its id,
   the call returns, every other qualifying incident is processed and its
   opportunities are committed *)
C4_ErrorsDoNotAbort ==
    \A p \in SeqProcs :
        Returned(p) =>
            /\ \A e \in Selected(window[p]) :
                   Raises(e) => \E k \in 1..Len(results[p].errors) : results[p].errors[k] = e
            /\ \A pr \in QualifyingPairs(window[p]) :
                   \E i \in RowsFor(opps, pr[1], pr[2]) :
                       /\ opps[i].propensity_score = ScoreFor(pr[2], pr[1]).score
                       /\ opps[i].recommended_talk_track = ScoreFor(pr[2], pr[1]).talk_track

(* an incident raised and an opportunity of an incident processed after it
   is committed *)
C4_Witness ==
    \E p \in SeqProcs :
        /\ Returned(p)
        /\ \E k \in 1..Len(results[p].errors), i \in 1..Len(opps) :
               events[opps[i].driver_event_id].occurred_on
                   < events[results[p].errors[k]].occurred_on

(* C5 as stated: the opportunities of the incidents finished before an abort
   are persisted *)
C5_AbortKeepsFinished ==
    \A p \in SeqProcs :
        pc[p] = "aborted" => Len(opps) = Len(hist.start[p]) + results[p].created

(* C5 as the code has it: the one commit comes after the last incident, so
   an abort between incidents persists nothing of the call and leaves the
   table as it was before the call *)
C5_AbortPersistsNothing ==
    \A p \in SeqProcs :
        pc[p] = "aborted" => (opps = hist.start[p] /\ pending[p] = <<>> /\ dirty[p] = <<>>)

(* an abort after an incident whose opportunity had been added *)
C5_Witness ==
    \E p \in SeqProcs :
        pc[p] = "aborted" /\ results[p].created > 0 /\ evq[p] # <<>>

(* C6: no opportunity is created for a pair scoring below 30, and a pair
   scoring 30.0 or more has exactly one opportunity created or updated *)
C6_ScoreFloor ==
    \A p \in SeqProcs :
        Returned(p) =>
            \A e \in Selected(window[p]), c \in Companies :
                (c \in PairsOf(e) /\ ~Raises(e)) =>
                    IF ScoreFor(c, e).score >= MinScore
                    THEN Cardinality(RowsFor(opps, e, c)) = 1
                    ELSE RowsFor(opps, e, c) = RowsFor(hist.start[p], e, c)

(* C7: each distinct GC/Owner of an incident is scored and upserted once:
   created + updated is the number of distinct qualifying pairs, and a
   rebuild over an empty table updates nothing *)
C7_OncePerDistinctTarget ==
    \A p \in SeqProcs :
        Returned(p) =>
            /\ results[p].created + results[p].updated
                   = Cardinality(QualifyingPairs(window[p]))
            /\ (hist.start[p] = <<>> => results[p].updated = 0)

(* C12: exactly one talk-track is returned, chosen by priority: severity
   component above 20, else frequency component above 10, else
   lagging-metric component above 10, else compliance gap assessment *)
C12_TalkTrackPriority ==
    Scored =>
        LET c == out.result.components
            t == out.result.talk_track
        IN  /\ c.severity > 20 * Scale => t = "Post-incident stabilization"
            /\ (c.severity <= 20 * Scale /\ c.frequency > 10 * Scale)
                   => t = "Trend analysis & prevention"
            /\ (c.severity <= 20 * Scale /\ c.frequency <= 10 * Scale
                   /\ c.ita > 10 * Scale)
                   => t = "Portfolio risk benchmarking"
            /\ (c.severity <= 20 * Scale /\ c.frequency <= 10 * Scale
                   /\ c.ita <= 10 * Scale)
                   => t = "Compliance gap assessment"

(* severity, frequency and lagging metric all above their thresholds *)
C12_Witness ==
    /\ Scored
    /\ out.result.components.severity > 20 * Scale
    /\ out.result.components.frequency > 10 * Scale
    /\ out.result.components.ita > 10 * Scale
    /\ out.result.talk_track = "Post-incident stabilization"

RelsTo(company) ==
    {i \in 1..Len(rels) : /\ rels[i].sub_id = out.event.company_id
                          /\ (rels[i].gc_id = company \/ rels[i].owner_id = company)}

(* the scenario: 12 days old, fatality, exactly one relationship to the
   target with a project, both dates and the trade steel erection *)
SteelScenario ==
    /\ out.valid
    /\ now - out.event.occurred_on = 12
    /\ out.event.fatality
    /\ Cardinality(RelsTo(out.company)) = 1
    /\ \A i \in RelsTo(out.company) :
           /\ rels[i].gc_id = out.company
           /\ rels[i].project_id # NoId
           /\ rels[i].start_date /\ rels[i].end_date
           /\ rels[i].trade = "steel erection"

(* C13: the scenario scores recency 30, severity at least 45, trade risk
   5, relationship confidence 4 or 5, a total of at least 80 and the
   post-incident stabilization talk-track *)
C13_SteelErectionScenario ==
    SteelScenario =>
        /\ ~out.result.raised
        /\ out.result.components.recency = 30 * Scale
        /\ out.result.components.severity >= 45 * Scale
        /\ out.result.components.trade_risk = 5 * Scale
        /\ out.result.components.relationship \in {4 * Scale, 5 * Scale}
        /\ out.result.score >= 80 * Scale
        /\ out.result.talk_track = "Post-incident stabilization"

(* the scenario, scored, with nothing else contributing *)
C13_Witness ==
    /\ SteelScenario
    /\ Scored
    /\ out.result.components.frequency = 0
    /\ out.result.components.ita = 0
    /\ out.result.components.news = 0
    /\ out.result.score = 89 * Scale

(* no lagging metric, no relationship to the target, and an attribute bag
   without narrative, keywords, penalty, violations, title and summary *)
NoOptionals ==
    /\ out.valid
    /\ \A i \in 1..Len(metrics) : metrics[i].sub_id # out.event.company_id
    /\ RelsTo(out.company) = {}
    /\ ~out.event.trade_text
    /\ out.event.penalty = 0
    /\ out.event.violations = 0
    /\ out.event.title = {}
    /\ out.event.summary = {}

TalkTracks ==
    {"Post-incident stabilization", "Trend analysis & prevention",
     "Portfolio risk benchmarking", "Compliance gap assessment"}

(* C14 as stated: without the optional data scoring never raises, the
   lagging-metric, relationship, trade-risk and media-sentiment components
   are each 0, and a total and a talk-track are returned *)
C14_MissingOptionalsAllZero ==
    NoOptionals =>
        /\ ~out.result.raised
        /\ out.result.components.ita = 0
        /\ out.result.components.relationship = 0
        /\ out.result.components.trade_risk = 0
        /\ out.result.components.news = 0
        /\ out.result.score >= 0
        /\ out.result.talk_track \in TalkTracks

(* C14 amended: the same, except that the trade-risk component is 0 only
   when no relationship of the subcontractor, to any company, names a
   high-risk trade, and 5 when one does *)
C14_MissingOptionalsNeverRaise ==
    NoOptionals =>
        /\ ~out.result.raised
        /\ out.result.components.ita = 0
        /\ out.result.components.relationship = 0
        /\ out.result.components.trade_risk =
               (IF \E i \in 1..Len(rels) :
                      /\ rels[i].sub_id = out.event.company_id
                      /\ rels[i].trade \in HighRiskTrades
                THEN 5 * Scale ELSE 0)
        /\ out.result.components.news = 0
        /\ out.result.score >= 0
        /\ out.result.talk_track \in TalkTracks

(* a news incident without optional data whose subcontractor did steel
   erection for another company *)
C14_Witness ==
    /\ NoOptionals
    /\ out.event.event_type = "news"
    /\ ~out.event.fatality /\ ~out.event.catastrophe
    /\ out.event.severity_type = ""
    /\ out.result.components.trade_risk = 5 * Scale
    /\ out.result.components.severity = OtherDefault

----------------------------------------------------------------------------
(* The recency component on its own: the component of an incident of any
   age up to MaxDays, next to the component computed the call before; two
   calls are compared *)

MaxDays == 200

NoRecency == [valid |-> FALSE]

InitRecency ==
    /\ now = Now0
    /\ events = <<>>
    /\ rels = <<>>
    /\ metrics = <<>>
    /\ opps = <<>>
    /\ InitProcs
    /\ InitResolver

DoRecency(days) ==
    /\ ~(out.valid /\ out.prev.valid)
    /\ out' = [valid |-> TRUE, days |-> days,
               recency |-> _calculate_recency_score(now - days),
               prev |-> IF out.valid
                        THEN [valid |-> TRUE, days |-> out.days,
                              recency |-> out.recency]
                        ELSE NoRecency]
    /\ UNCHANGED <<now, storeVars, opps, procVars, calls, hist>>

NextRecency == \E days \in 0..MaxDays : DoRecency(days)

SpecRecency == InitRecency /\ [][NextRecency]_vars

(* C11: the recency component is exactly 30 for an incident 30 or fewer
   days old, exactly 0 for one older than the horizon of 180 days, and an
   older incident never has a larger component than a newer one *)
C11_RecencyBoundsAndMonotone ==
    out.valid =>
        /\ (out.days <= 30 => out.recency = 30 * Scale)
        /\ (out.days > 180 => out.recency = 0)
        /\ ((out.prev.valid /\ out.prev.days <= out.days)
               => out.recency <= out.prev.recency)

(* an incident of 181 days scored after one of 180 days, which still has a
   positive component *)
C11_Witness ==
    /\ out.valid /\ out.days = 181 /\ out.recency = 0
    /\ out.prev.valid /\ out.prev.days = 180 /\ out.prev.recency > 0

----------------------------------------------------------------------------
(* Company names: a name is a sequence of one-character strings *)

LowerCase ==
    <<"a", "b", "c", "d", "e", "f", "g", "h", "i", "j", "k", "l", "m",
      "n", "o", "p", "q", "r", "s", "t", "u", "v", "w", "x", "y", "z">>

UpperCase ==
    <<"A", "B", "C", "D", "E", "F", "G", "H", "I", "J", "K", "L", "M",
      "N", "O", "P", "Q", "R", "S", "T", "U", "V", "W", "X", "Y", "Z">>

Range(s) == {s[i] : i \in 1..Len(s)}

WordChars ==
    Range(LowerCase) \cup Range(UpperCase)
        \cup {"0", "1", "2", "3", "4", "5", "6", "7", "8", "9", "_"}

(* \w *)
IsWordChar(c) == c \in WordChars

(* \s *)
IsSpace(c) == c = " "

UpperOf ==
    [c \in Range(LowerCase) |->
        UpperCase[CHOOSE i \in 1..Len(LowerCase) : LowerCase[i] = c]]

(* str.upper *)
Upper(name) ==
    [i \in 1..Len(name) |->
        IF name[i] \in DOMAIN UpperOf THEN UpperOf[name[i]] ELSE name[i]]

RECURSIVE LStrip(_)
LStrip(name) ==
    IF name # <<>> /\ IsSpace(Head(name)) THEN LStrip(Tail(name)) ELSE name

RECURSIVE RStrip(_)
RStrip(name) ==
    IF name # <<>> /\ IsSpace(name[Len(name)])
    THEN RStrip(SubSeq(name, 1, Len(name) - 1))
    ELSE name

(* str.strip *)
Strip(name) == RStrip(LStrip(name))

(* ' '.join(name.split()) *)
RECURSIVE JoinSplitFrom(_, _, _)
JoinSplitFrom(name, i, acc) ==
    IF i > Len(name) THEN RStrip(acc)
    ELSE IF IsSpace(name[i])
         THEN JoinSplitFrom(name, i + 1,
                            IF acc = <<>> \/ IsSpace(acc[Len(acc)])
                            THEN acc ELSE Append(acc, " "))
         ELSE JoinSplitFrom(name, i + 1, Append(acc, name[i]))

JoinSplit(name) == JoinSplitFrom(name, 1, <<>>)

LLC == <<"L", "L", "C">>

(* the suffix patterns without the last one, PLC *)
suffixes_NoPLC ==
    << {<<"I", "N", "C">>,
        <<"I", "N", "C", "O", "R", "P", "O", "R", "A", "T", "E", "D">>},
       {<<"L", "L", "C">>},
       {<<"C", "O", "R", "P">>},
       {<<"C", "O", "R", "P", "O", "R", "A", "T", "I", "O", "N">>},
       {<<"C", "O">>},
       {<<"L", "T", "D">>},
       {<<"L", "I", "M", "I", "T", "E", "D">>},
       {<<"L", "P">>},
       {<<"L", "L", "P">>} >>

(* the resolver's suffix patterns, in the order they are applied; each is
   \b(word|...)\b\.? *)
suffixes ==
    << {<<"I", "N", "C">>,
        <<"I", "N", "C", "O", "R", "P", "O", "R", "A", "T", "E", "D">>},
       {LLC},
       {<<"C", "O", "R", "P">>},
       {<<"C", "O", "R", "P", "O", "R", "A", "T", "I", "O", "N">>},
       {<<"C", "O">>},
       {<<"L", "T", "D">>},
       {<<"L", "I", "M", "I", "T", "E", "D">>},
       {<<"L", "P">>},
       {<<"L", "L", "P">>},
       {<<"P", "L", "C">>} >>

(* word w occupies name[i..i+Len(w)-1] *)
WordAt(name, w, i) ==
    /\ i + Len(w) - 1 <= Len(name)
    /\ SubSeq(name, i, i + Len(w) - 1) = w

(* \b before position i, where a word character stands at i *)
BoundaryBefore(name, i) == i = 1 \/ ~IsWordChar(name[i - 1])

(* \b before position j, where a word character stands at j - 1 *)
BoundaryAfter(name, j) == j > Len(name) \/ ~IsWordChar(name[j])

(* the length matched at i by \b(words)\b\.? , 0 for no match *)
MatchLen(name, words, i) ==
    LET hits == {w \in words : /\ WordAt(name, w, i)
                               /\ BoundaryBefore(name, i)
                               /\ BoundaryAfter(name, i + Len(w))}
    IN  IF hits = {} THEN 0
        ELSE LET w == CHOOSE w \in hits : TRUE
                 j == i + Len(w)
             IN  IF j <= Len(name) /\ name[j] = "." THEN Len(w) + 1 ELSE Len(w)

(* re.sub(pattern, '', name): every match, left to right *)
RECURSIVE ReSubFrom(_, _, _, _)
ReSubFrom(name, words, i, acc) ==
    IF i > Len(name) THEN acc
    ELSE LET n == MatchLen(name, words, i)
         IN  IF n > 0 THEN ReSubFrom(name, words, i + n, acc)
             ELSE ReSubFrom(name, words, i + 1, Append(acc, name[i]))

RECURSIVE RemoveSuffixes(_, _)
RemoveSuffixes(name, k) ==
    IF k > Len(suffixes) THEN name
    ELSE RemoveSuffixes(ReSubFrom(name, suffixes[k], 1, <<>>), k + 1)

(* [\w\s\-] *)
KeptByResolver(c) == IsWordChar(c) \/ IsSpace(c) \/ c = "-"

(* EntityResolver.normalize_company_name, step by step *)
NormalizeSteps(name) ==
    IF name = <<>> THEN <<>>
    ELSE LET upper == Upper(Strip(name))
             bare == RemoveSuffixes(upper, 1)
             clean == SelectSeq(bare, KeptByResolver)
         IN  Strip(JoinSplit(clean))

(* the names the calls are made with: "Abc LLC", "ABC", "ABCD", "A-B Co.",
   "LLC" and the empty name *)
AbcLlc == <<"A", "b", "c", " ">> \o LLC
ABC == <<"A", "B", "C">>
ABCD == <<"A", "B", "C", "D">>
ABCo == <<"A", "-", "B", " ", "C", "o", ".">>
NoName == <<>>

(* the normalized forms of the names in use and of their normalized forms,
   computed once *)
NormalizedForms ==
    LET raw == {AbcLlc, ABC, ABCD, ABCo, LLC, NoName}
        known == raw \cup {NormalizeSteps(n) : n \in raw}
    IN  {<<n, NormalizeSteps(n)>> : n \in known}

(* EntityResolver.normalize_company_name *)
normalize_company_name(name) ==
    IF \E f \in NormalizedForms : f[1] = name
    THEN (CHOOSE f \in NormalizedForms : f[1] = name)[2]
    ELSE NormalizeSteps(name)

(* the adapters' suffix alternation, \b(INC|LLC|CORP|CO|LTD|LP|LLP)\.?$ *)
adapter_suffixes ==
    {<<"I", "N", "C">>, LLC, <<"C", "O", "R", "P">>, <<"C", "O">>,
     <<"L", "T", "D">>, <<"L", "P">>, <<"L", "L", "P">>}

(* the match of the end-anchored pattern starts at i *)
EndMatchAt(name, i) ==
    \E w \in adapter_suffixes :
        /\ WordAt(name, w, i)
        /\ BoundaryBefore(name, i)
        /\ \/ i + Len(w) - 1 = Len(name)
           \/ (i + Len(w) = Len(name) /\ name[Len(name)] = ".")

ReSubEnd(name) ==
    LET starts == {i \in 1..Len(name) : EndMatchAt(name, i)}
    IN  IF starts = {} THEN name
        ELSE SubSeq(name, 1, (CHOOSE i \in starts : \A j \in starts : i <= j) - 1)

(* [\w\s] *)
KeptByAdapter(c) == IsWordChar(c) \/ IsSpace(c)

(* BaseAdapter.normalize_company_name *)
BaseAdapter_normalize_company_name(name) ==
    LET upper == Upper(Strip(name))
        bare == Strip(ReSubEnd(upper))
        clean == SelectSeq(bare, KeptByAdapter)
    IN  JoinSplit(clean)

Max(a, b) == IF a >= b THEN a ELSE b

(* one row of the longest-common-subsequence table: the row of character
   c against t, from the row before *)
RECURSIVE LcsRow(_, _, _, _, _)
LcsRow(c, t, prev, j, acc) ==
    IF j > Len(t) THEN acc
    ELSE LET diag == IF j = 1 THEN 0 ELSE prev[j - 1]
             left == IF j = 1 THEN 0 ELSE acc[j - 1]
             cell == IF c = t[j] THEN diag + 1 ELSE Max(prev[j], left)
         IN  LcsRow(c, t, prev, j + 1, Append(acc, cell))

RECURSIVE LcsFrom(_, _, _, _)
LcsFrom(s, t, i, row) ==
    IF i > Len(s) THEN (IF t = <<>> THEN 0 ELSE row[Len(t)])
    ELSE LcsFrom(s, t, i + 1, LcsRow(s[i], t, row, 1, <<>>))

(* rapidfuzz fuzz.ratio, in hundredths: 100 * 2 * lcs / (len1 + len2),
   and 100 for two empty strings *)
ratio(s, t) ==
    IF Len(s) + Len(t) = 0 THEN 100 * Scale
    ELSE LET lcs == LcsFrom(s, t, 1, [j \in 1..Len(t) |-> 0])
         IN  (200 * Scale * lcs) \div (Len(s) + Len(t))

----------------------------------------------------------------------------
(* The company registry and its resolver *)

Company(name, normalized_name) ==
    [name |-> name, normalized_name |-> normalized_name]

CompanyAlias(company_id, alias, confidence) ==
    [company_id |-> company_id, alias |-> alias, confidence |-> confidence]

(* confidences in hundredths: the default 1.0 and the 0.9 of the alias import *)
DefaultConfidence == 100
ImportConfidence == 90

fuzzy_threshold == 85 * Scale
ResolveThreshold == 95 * Scale

(* the (company, score) tuples collected by find_similar_companies, as the
   set that set(matches) makes of them *)
Matches_Of(reg, al, company_name) ==
    LET normalized_name == normalize_company_name(company_name)
        byName == {[company |-> i, score |-> ratio(normalized_name, reg[i].normalized_name)] :
                      i \in 1..Len(reg)}
        byAlias == {[company |-> al[k].company_id,
                     score |-> ratio(normalized_name, normalize_company_name(al[k].alias))] :
                      k \in {k \in 1..Len(al) : al[k].company_id \in 1..Len(reg)}}
    IN  {m \in byName \cup byAlias : m.score >= fuzzy_threshold}

(* sorted(..., key=score, reverse=True) of a set: tuples of equal score
   come in the order the set yields them, which is any order *)
RECURSIVE SortedOrders(_)
SortedOrders(M) ==
    IF M = {} THEN {<<>>}
    ELSE LET top == {m \in M : \A o \in M : o.score <= m.score}
         IN  UNION { {<<m>> \o rest : rest \in SortedOrders(M \ {m})} : m \in top }

(* the lists find_similar_companies can return *)
find_similar_companies(reg, al, company_name, limit) ==
    {SubSeq(order, 1, Min(limit, Len(order))) :
        order \in SortedOrders(Matches_Of(reg, al, company_name))}

(* variant: the exact lookup is left out, only the fuzzy search decides *)
resolve_company_FuzzyOnly(reg, al, company_name) ==
    IF company_name = <<>> THEN {NoId}
    ELSE {IF similar # <<>> /\ similar[1].score >= ResolveThreshold
          THEN similar[1].company ELSE NoId :
             similar \in find_similar_companies(reg, al, company_name, 1)}

(* the companies resolve_company can return, NoId for None; .first() of a
   query without an order yields any row that matches *)
resolve_company(reg, al, company_name) ==
    IF company_name = <<>> THEN {NoId}
    ELSE LET normalized_name == normalize_company_name(company_name)
             exact == {i \in 1..Len(reg) : reg[i].normalized_name = normalized_name}
         IN  IF exact # {} THEN exact
             ELSE {IF similar # <<>> /\ similar[1].score >= ResolveThreshold
                   THEN similar[1].company ELSE NoId :
                      similar \in find_similar_companies(reg, al, company_name, 1)}

(* variant: the lookup compares the alias text as given *)
add_company_alias_Raw(al, company_id, alias, confidence) ==
    IF \E k \in 1..Len(al) : al[k].company_id = company_id /\ al[k].alias = alias
    THEN al
    ELSE Append(al, CompanyAlias(company_id, normalize_company_name(alias), confidence))

add_company_alias(al, company_id, alias, confidence) ==
    LET normalized_alias == normalize_company_name(alias)
    IN  IF \E k \in 1..Len(al) : /\ al[k].company_id = company_id
                                 /\ al[k].alias = normalized_alias
        THEN al
        ELSE Append(al, CompanyAlias(company_id, normalized_alias, confidence))

(* _find_or_create_company_from_csv: the registries and ids it can end with *)
_find_or_create_company_from_csv(reg, al, company_name) ==
    IF company_name = <<>> THEN {[reg |-> reg, id |-> NoId]}
    ELSE {IF c # NoId THEN [reg |-> reg, id |-> c]
          ELSE [reg |-> Append(reg, Company(company_name,
                                            normalize_company_name(company_name))),
                id |-> Len(reg) + 1] :
             c \in resolve_company(reg, al, company_name)}

(* the creation without the lookup before it *)
_find_or_create_company_NoLookup(reg, raw_company_name) ==
    Append(reg, Company(raw_company_name,
                        BaseAdapter_normalize_company_name(raw_company_name)))

(* IngestionService._find_or_create_company, called with the name the
   adapter normalized and the raw name in the event data *)
_find_or_create_company(reg, raw_company_name) ==
    LET normalized_name == BaseAdapter_normalize_company_name(raw_company_name)
    IN  IF \E i \in 1..Len(reg) : reg[i].normalized_name = normalized_name
        THEN reg
        ELSE Append(reg, Company(raw_company_name, normalized_name))

----------------------------------------------------------------------------
(* Names and rows the calls are made with *)

MaxCompanies == 2


IngestNames == {AbcLlc, ABCD, ABCo, LLC}
ResolveNames == {AbcLlc, ABC, LLC, NoName}
SimilarNames == {AbcLlc, ABCD}
AliasNames == {AbcLlc, ABC}

(* a relationship row; po_value and the dates are "", "ok" or "bad" *)
RelRow(gc_name, owner_name, sub_name, project_name, po_value, start_date, end_date, trade) ==
    [gc_name |-> gc_name, owner_name |-> owner_name, sub_name |-> sub_name,
     project_name |-> project_name, po_value |-> po_value,
     start_date |-> start_date, end_date |-> end_date, trade |-> trade]

RelRows ==
    { RelRow(AbcLlc, NoName, ABCD, "P1", "ok", "ok", "ok", "steel erection"),
      RelRow(ABCo, NoName, NoName, "P1", "", "", "", ""),
      RelRow(NoName, AbcLlc, ABCD, "", "bad", "", "", "plumbing"),
      RelRow(AbcLlc, NoName, ABCD, "P2", "", "ok", "bad", "") }

AliasRow(canonical_name, alias) == [canonical_name |-> canonical_name, alias |-> alias]

AliasRows ==
    { AliasRow(ABCD, AbcLlc), AliasRow(ABCo, ABC),
      AliasRow(ABCD, NoName), AliasRow(NoName, AbcLlc) }

(* files of one or two rows *)
Batches(rows) == SeqsUpTo(rows, 2) \ {<<>>}

(* the names of a batch that no company has yet *)
NewNames(reg, kind, batch) ==
    LET names == IF kind = "sub_relationships"
                 THEN UNION {{batch[i].gc_name, batch[i].owner_name, batch[i].sub_name} :
                                i \in 1..Len(batch)}
                 ELSE {batch[i].canonical_name : i \in 1..Len(batch)}
    IN  {normalize_company_name(n) : n \in names \ {NoName}}
            \ {reg[i].normalized_name : i \in 1..Len(reg)}

----------------------------------------------------------------------------
(* The two bulk imports, one row at a time *)

(* a row's outcome: the tables after it and whether it raised *)
RowOutcome(reg, al, proj, rl, raised) ==
    [registry |-> reg, aliases |-> al, projects |-> proj, rels |-> rl,
     raised |-> raised]

(* _find_or_create_project_from_csv: "raise" where a date does not parse *)
_find_or_create_project_from_csv(proj, row, gc, owner) ==
    IF \E k \in 1..Len(proj) : proj[k].name = row.project_name
    THEN [raised |-> FALSE, projects |-> proj,
          id |-> CHOOSE k \in 1..Len(proj) :
                    /\ proj[k].name = row.project_name
                    /\ \A j \in 1..Len(proj) : proj[j].name = row.project_name => k <= j]
    ELSE IF row.start_date = "bad" \/ row.end_date = "bad"
    THEN [raised |-> TRUE, projects |-> proj, id |-> NoId]
    ELSE [raised |-> FALSE,
          projects |-> Append(proj, [name |-> row.project_name,
                                     gc_id |-> gc, owner_id |-> owner]),
          id |-> Len(proj) + 1]

(* the body of the loop of _process_sub_relationships_csv for one row *)
SubRelationshipRow(reg, al, proj, rl, row) ==
    UNION { UNION { {
        LET project == IF row.project_name # ""
                       THEN _find_or_create_project_from_csv(proj, row, g.id, o.id)
                       ELSE [raised |-> FALSE, projects |-> proj, id |-> NoId]
        IN  IF project.raised
                \/ s.id = NoId
                \/ row.po_value = "bad"
                \/ row.start_date = "bad"
                \/ row.end_date = "bad"
            THEN RowOutcome(s.reg, al, project.projects, rl, TRUE)
            ELSE RowOutcome(s.reg, al, project.projects,
                            Append(rl, [gc_id |-> g.id, owner_id |-> o.id,
                                        sub_id |-> s.id, project_id |-> project.id,
                                        start_date |-> row.start_date # "",
                                        end_date |-> row.end_date # "",
                                        trade |-> row.trade]),
                            FALSE) :
        s \in _find_or_create_company_from_csv(o.reg, al, row.sub_name) } :
        o \in _find_or_create_company_from_csv(g.reg, al, row.owner_name) } :
        g \in _find_or_create_company_from_csv(reg, al, row.gc_name) }

(* the body of the loop of _process_company_aliases_csv for a row with both
   fields *)
CompanyAliasRow(reg, al, proj, rl, row) ==
    { LET created == c = NoId
          reg2 == IF created
                  THEN Append(reg, Company(row.canonical_name,
                                           normalize_company_name(row.canonical_name)))
                  ELSE reg
          id == IF created THEN Len(reg) + 1 ELSE c
      IN  RowOutcome(reg2, add_company_alias(al, id, row.alias, ImportConfidence),
                     proj, rl, FALSE) :
      c \in resolve_company(reg, al, row.canonical_name) }

(* process_csv_mappings is called with the rows of a file *)
StartImport(kind, batch) ==
    /\ imp.pc \in {"idle", "done"}
    /\ Len(registry) + Cardinality(NewNames(registry, kind, batch)) <= MaxCompanies
    /\ Len(rels) + (IF kind = "sub_relationships" THEN Len(batch) ELSE 0) <= MaxRels
    /\ imp' = [IdleImport EXCEPT !.pc = "running", !.kind = kind, !.batch = batch]
    /\ out' = NoOut
    /\ UNCHANGED <<now, events, rels, metrics, registry, aliases, projects,
                   opps, procVars, calls, hist, sessions>>

(* the alias import leaves out rows with a mistaken canonical name only *)
_process_company_aliases_csv_continue_CanonicalOnly(kind, row) ==
    kind = "company_aliases" /\ row.canonical_name = NoName

(* "if not canonical_name or not alias_name: continue" of the alias import *)
_process_company_aliases_csv_continue(kind, row) ==
    kind = "company_aliases"
        /\ (row.canonical_name = NoName \/ row.alias = NoName)

(* one iteration of the loop over the rows *)
ImportRow ==
    /\ imp.pc = "running"
    /\ imp.next <= Len(imp.batch)
    /\ LET row == imp.batch[imp.next]
       IN  IF _process_company_aliases_csv_continue(imp.kind, row)
           THEN /\ imp' = [imp EXCEPT !.next = @ + 1]
                /\ UNCHANGED <<registry, aliases, projects, rels>>
           ELSE \E o \in (IF imp.kind = "company_aliases"
                          THEN CompanyAliasRow(registry, aliases, projects, rels, row)
                          ELSE SubRelationshipRow(registry, aliases, projects, rels, row)) :
                    /\ registry' = o.registry
                    /\ aliases' = o.aliases
                    /\ projects' = o.projects
                    /\ rels' = o.rels
                    /\ imp' = [imp EXCEPT
                                 !.next = @ + 1,
                                 !.results =
                                     IF o.raised
                                     THEN [@ EXCEPT !.errors = Append(@, imp.next)]
                                     ELSE [@ EXCEPT !.created = @ + 1,
                                                    !.processed = @ + 1]]
    /\ UNCHANGED <<now, events, metrics, opps, procVars, calls, hist, sessions, out>>

(* session.commit() after the last row, and the results are returned *)
FinishImport ==
    /\ imp.pc = "running"
    /\ imp.next > Len(imp.batch)
    /\ imp' = [imp EXCEPT !.pc = "done"]
    /\ UNCHANGED <<now, events, rels, metrics, registry, aliases, projects,
                   opps, procVars, calls, hist, sessions, out>>

(* run_ingestion stores the company of one adapter event *)
Ingest(raw_company_name) ==
    /\ imp.pc # "running"
    /\ Len(registry) < MaxCompanies
    /\ registry' = _find_or_create_company(registry, raw_company_name)
    /\ out' = NoOut
    /\ imp' = IdleImport
    /\ UNCHANGED <<now, events, rels, metrics, aliases, projects,
                   opps, procVars, calls, hist, sessions>>

(* add_company_alias called on its own *)
AddAlias(company_id, alias, confidence) ==
    /\ imp.pc # "running"
    /\ aliases' = add_company_alias(aliases, company_id, alias, confidence)
    /\ out' = [op |-> "add_company_alias", company_id |-> company_id,
               alias |-> alias, confidence |-> confidence,
               before |-> aliases]
    /\ imp' = IdleImport
    /\ UNCHANGED <<now, events, rels, metrics, registry, projects,
                   opps, procVars, calls, hist, sessions>>

(* what the same call returned the time before, against the same registry *)
Called(op) == "op" \in DOMAIN out /\ out.op = op

Before(op, company_name, limit) ==
    IF Called(op) /\ out.company_name = company_name /\ out.limit = limit
    THEN [seen |-> TRUE, result |-> out.result] ELSE [seen |-> FALSE]

(* a call is observed on a registry nothing was observed on yet, or is the
   repetition of the call before *)
Fresh(op, company_name, limit) ==
    \/ out = NoOut
    \/ /\ Called(op)
       /\ out.company_name = company_name /\ out.limit = limit
       /\ ~out.before.seen

Resolve(company_name) ==
    /\ imp.pc # "running"
    /\ Fresh("resolve_company", company_name, 1)
    /\ \E c \in resolve_company(registry, aliases, company_name) :
           out' = [op |-> "resolve_company", company_name |-> company_name,
                   limit |-> 1, result |-> c,
                   before |-> Before("resolve_company", company_name, 1)]
    /\ UNCHANGED <<now, storeVars, opps, procVars, calls, hist>>

FindSimilar(company_name, limit) ==
    /\ imp.pc # "running"
    /\ Fresh("find_similar_companies", company_name, limit)
    /\ \E l \in find_similar_companies(registry, aliases, company_name, limit) :
           out' = [op |-> "find_similar_companies", company_name |-> company_name,
                   limit |-> limit, result |-> l,
                   before |-> Before("find_similar_companies", company_name, limit)]
    /\ UNCHANGED <<now, storeVars, opps, procVars, calls, hist>>

InitRegistry ==
    /\ now = Now0
    /\ events = <<>>
    /\ rels = <<>>
    /\ metrics = <<>>
    /\ opps = <<>>
    /\ InitProcs
    /\ InitResolver

NextRegistry ==
    \/ \E name \in IngestNames : Ingest(name)
    \/ \E c \in 1..Len(registry), alias \in AliasNames,
          confidence \in {ImportConfidence, DefaultConfidence} :
            AddAlias(c, alias, confidence)
    \/ \E name \in ResolveNames : Resolve(name)
    \/ \E name \in SimilarNames, limit \in {1, 5} : FindSimilar(name, limit)

SpecRegistry == InitRegistry /\ [][NextRegistry]_vars

(* the producers of companies: adapter ingestion and the two imports *)
NextImport ==
    \/ \E name \in IngestNames : Ingest(name)
    \/ \E batch \in Batches(RelRows) : StartImport("sub_relationships", batch)
    \/ \E batch \in Batches(AliasRows) : StartImport("company_aliases", batch)
    \/ ImportRow
    \/ FinishImport

SpecImport == InitRegistry /\ [][NextImport]_vars

----------------------------------------------------------------------------
(* C15 as stated: if the registry has a company with normalized name N,
   resolve_company called with any name whose normalization is N returns
   that company *)
C15_ExactResolve ==
    Called("resolve_company") =>
        \A i \in 1..Len(registry) :
            registry[i].normalized_name = normalize_company_name(out.company_name)
                => out.result = i

(* C15 amended: the same for every name that is not empty; the empty name
   resolves to no company *)
C15_ExactResolveNonEmpty ==
    Called("resolve_company") =>
        /\ out.company_name # NoName =>
               \A i \in 1..Len(registry) :
                   registry[i].normalized_name = normalize_company_name(out.company_name)
                       => out.result = i
        /\ out.company_name = NoName => out.result = NoId

(* "ABC" resolved to the company stored as "Abc LLC" while another company
   has the alias ABC *)
C15_Witness ==
    /\ Called("resolve_company")
    /\ out.company_name = ABC
    /\ out.result # NoId
    /\ registry[out.result].name = AbcLlc
    /\ \E k \in 1..Len(aliases) :
           aliases[k].company_id # out.result /\ aliases[k].alias = ABC

(* C16: every company, whichever producer created it, has as normalized
   name the resolver's normalization of its display name *)
C16_NormalizedNameOfDisplayName ==
    \A i \in 1..Len(registry) :
        registry[i].normalized_name = normalize_company_name(registry[i].name)

BestScore(company, company_name) ==
    LET normalized_name == normalize_company_name(company_name)
        scores == {ratio(normalized_name, registry[company].normalized_name)}
                      \cup {ratio(normalized_name, normalize_company_name(aliases[k].alias)) :
                               k \in {k \in 1..Len(aliases) :
                                          aliases[k].company_id = company}}
    IN  CHOOSE s \in scores : \A t \in scores : t <= s

(* C17: find_similar_companies returns each company at most once, with the
   best of the scores of its normalized name and its aliases *)
C17_OncePerCompanyBestScore ==
    Called("find_similar_companies") =>
        LET l == out.result
        IN  /\ \A i, j \in 1..Len(l) : l[i].company = l[j].company => i = j
            /\ \A i \in 1..Len(l) :
                   l[i].score = BestScore(l[i].company, out.company_name)

(* the company a limit-1 call came back with *)
Picked(result) ==
    IF Called("resolve_company") THEN result
    ELSE IF result = <<>> THEN NoId ELSE result[1].company

(* C18: a call with limit 1 repeated against the same registry returns
   the same company, also when two companies tie for the top score *)
C18_DeterministicTie ==
    ((Called("resolve_company") \/ Called("find_similar_companies"))
        /\ out.limit = 1 /\ out.before.seen)
        => Picked(out.before.result) = Picked(out.result)

AliasExisted ==
    \E k \in 1..Len(out.before) :
        /\ out.before[k].company_id = out.company_id
        /\ out.before[k].alias = normalize_company_name(out.alias)

(* C19: a company has at most one alias row per normalized alias text; a
   call that finds the normalized alias changes nothing, and one that does
   not appends a row with the normalized text and the given confidence *)
C19_AliasIdempotent ==
    /\ \A i, j \in 1..Len(aliases) :
           (aliases[i].company_id = aliases[j].company_id
               /\ aliases[i].alias = aliases[j].alias) => i = j
    /\ Called("add_company_alias") =>
           IF AliasExisted THEN aliases = out.before
           ELSE aliases = Append(out.before,
                                 CompanyAlias(out.company_id,
                                              normalize_company_name(out.alias),
                                              out.confidence))

(* "Abc LLC" added with one confidence to a company that has the alias ABC
   with the other *)
C19_Witness ==
    /\ Called("add_company_alias")
    /\ out.alias = AbcLlc
    /\ AliasExisted
    /\ \E k \in 1..Len(aliases) :
           /\ aliases[k].company_id = out.company_id
           /\ aliases[k].alias = ABC
           /\ aliases[k].confidence # out.confidence

Malformed(kind, row) ==
    IF kind = "sub_relationships"
    THEN \/ row.sub_name = NoName
         \/ row.po_value = "bad"
         \/ row.start_date = "bad"
         \/ row.end_date = "bad"
    ELSE row.canonical_name = NoName \/ row.alias = NoName

(* C20: when an import returns, every malformed row of the file has an
   error message, every row was gone through, and every well-formed row
   was processed *)
C20_MalformedRowsReported ==
    imp.pc = "done" =>
        LET bad == {i \in 1..Len(imp.batch) : Malformed(imp.kind, imp.batch[i])}
        IN  /\ imp.next = Len(imp.batch) + 1
            /\ imp.results.processed = Len(imp.batch) - Cardinality(bad)
            /\ bad = Range(imp.results.errors)

FullRow(row) == row.canonical_name # NoName /\ row.alias # NoName

(* C21: the step of the alias import over a row without an alias changes
   neither the aliases nor the counts nor the errors and goes on to the next
   row; when the import returns, processed is the number of rows with both
   fields and errors is empty, so processed is the number of rows for a file
   in which every row has both fields *)
C21_AliasRowSkipped ==
    [][/\ (imp.pc = "running" /\ imp.kind = "company_aliases"
              /\ imp'.pc = "running" /\ imp'.next = imp.next + 1
              /\ imp.batch[imp.next].alias = NoName)
           => /\ aliases' = aliases
              /\ registry' = registry
              /\ imp'.results = imp.results
       /\ (imp'.pc = "done" /\ imp'.kind = "company_aliases")
           => /\ imp'.results.processed =
                     Cardinality({i \in 1..Len(imp'.batch) : FullRow(imp'.batch[i])})
              /\ imp'.results.errors = <<>>
              /\ (\A i \in 1..Len(imp'.batch) : FullRow(imp'.batch[i]))
                     => imp'.results.processed = Len(imp'.batch)]_vars

(* a file whose first row has no alias and whose second row has both fields
   was imported: one row processed, one alias, of the second row's company *)
C21_Witness ==
    /\ imp.pc = "done"
    /\ imp.kind = "company_aliases"
    /\ imp.batch = <<AliasRow(ABCD, NoName), AliasRow(ABCo, ABC)>>
    /\ imp.results.processed = 1
    /\ imp.results.errors = <<>>
    /\ Len(aliases) = 1
    /\ aliases[1].alias = ABC
    /\ registry[aliases[1].company_id].name = ABCo

----------------------------------------------------------------------------
(* The normalizer on its own: a name is put together from a stem and a
   legal-entity word, normalize_company_name is applied to it and then to
   its own result *)

AB == <<"A", "B">>
(* "a  b " *)
SpacedAB == <<"a", " ", " ", "b", " ">>
(* "A&B," *)
AndB == <<"A", "&", "B", ",">>
(* "L.L.C." *)
DottedLLC == <<"L", ".", "L", ".", "C", ".">>
(* "A." *)
ADot == <<"A", ".">>

NameStems == {NoName, AB, SpacedAB, AndB, DottedLLC, ADot, ABCo, AbcLlc}

(* the legal-entity words as they are written in a name *)
SuffixWords ==
    { <<"I", "n", "c">>,
      <<"L", "L", "C">>,
      <<"C", "o", "r", "p">>,
      <<"C", "o", "r", "p", "o", "r", "a", "t", "i", "o", "n">>,
      <<"C", "o">>,
      <<"L", "t", "d">>,
      <<"L", "i", "m", "i", "t", "e", "d">>,
      <<"L", "P">>,
      <<"L", "L", "P">>,
      <<"P", "L", "C">> }

Places == {"last", "first", "middle"}

(* the name made of stem x and the word, with or without a period, as last,
   first or middle word *)
NameOf(x, word, dot, place) ==
    LET w == IF dot THEN Append(word, ".") ELSE word
    IN  IF place = "none" THEN x
        ELSE IF place = "last" THEN x \o <<" ">> \o w
        ELSE IF place = "first" THEN w \o <<" ">> \o x
        ELSE x \o <<" ">> \o w \o <<" ">> \o x

NormalizeInputs ==
    {[op |-> "input", x |-> x, word |-> NoName, dot |-> FALSE, place |-> "none"] :
        x \in NameStems}
    \cup {[op |-> "input", x |-> x, word |-> w, dot |-> d, place |-> p] :
            x \in NameStems, w \in SuffixWords, d \in BOOLEAN, p \in Places}

InitNormalize ==
    /\ now = Now0
    /\ events = <<>>
    /\ rels = <<>>
    /\ metrics = <<>>
    /\ opps = <<>>
    /\ pc = [p \in Procs |-> "idle"]
    /\ evq = [p \in Procs |-> <<>>]
    /\ work = [p \in Procs |-> <<>>]
    /\ found = [p \in Procs |-> NoneFound]
    /\ pending = [p \in Procs |-> <<>>]
    /\ dirty = [p \in Procs |-> <<>>]
    /\ results = [p \in Procs |-> EmptyResults]
    /\ window = [p \in Procs |-> <<None, None>>]
    /\ calls = 0
    /\ hist = EmptyHist
    /\ InitResolver
    /\ out \in NormalizeInputs

(* normalize_company_name(name) *)
Normalize ==
    /\ out.op = "input"
    /\ LET name == NameOf(out.x, out.word, out.dot, out.place)
       IN  out' = [op |-> "normalize_company_name", x |-> out.x, word |-> out.word,
                   dot |-> out.dot, place |-> out.place, name |-> name,
                   result |-> normalize_company_name(name), again |-> FALSE]
    /\ UNCHANGED <<now, storeVars, opps, procVars, calls, hist>>

(* normalize_company_name applied to the result of the call before *)
NormalizeAgain ==
    /\ out.op = "normalize_company_name"
    /\ ~out.again
    /\ out' = [out EXCEPT !.name = out.result,
                          !.result = normalize_company_name(out.result),
                          !.again = TRUE]
    /\ UNCHANGED <<now, storeVars, opps, procVars, calls, hist>>

NextNormalize ==
    \/ Normalize
    \/ NormalizeAgain

SpecNormalize == InitNormalize /\ [][NextNormalize]_vars

(* C22: normalizing a normalized form gives the same form *)
C22_Idempotent ==
    (out.op = "normalize_company_name" /\ out.again) => out.result = out.name

(* C23: a name and the name with a legal-entity word appended as last word,
   with or without a period, have the same normalized form *)
C23_TrailingSuffixRemoved ==
    (out.op = "normalize_company_name" /\ ~out.again /\ out.place = "last")
        => out.result = normalize_company_name(out.x)

(* "A&B, Ltd." was normalized to "AB" *)
C23_Witness ==
    /\ out.op = "normalize_company_name"
    /\ ~out.again
    /\ out.place = "last"
    /\ out.x = AndB
    /\ out.dot
    /\ out.name = AndB \o <<" ", "L", "t", "d", ".">>
    /\ out.result = AB

(* C24: a legal-entity word standing before a stem that has none is kept:
   the normalized form is the word in upper case, a space and the
   normalized stem *)
C24_LeadingSuffixKept ==
    (out.op = "normalize_company_name" /\ ~out.again /\ out.place = "first"
        /\ out.x \in {AB, SpacedAB, AndB, ADot})
        => out.result = Upper(out.word) \o <<" ">> \o normalize_company_name(out.x)

----------------------------------------------------------------------------
(* Two relationship imports in two processes, each with its own session, on
   one database.  A row a session flushed is seen by the other session after
   the commit only.  Each file has one row, with a GC and the subcontractor
   "ABCD". *)

ConcurrentNames == {AbcLlc, ABC}

(* the Company table as session p reads it: the rows another session has
   not committed yet match no name *)
VisibleTo(p) ==
    [i \in 1..Len(registry) |->
        IF \E q \in Procs \ {p} : i \in sessions[q].flushed
        THEN Company(<<"#">>, <<"#">>)
        ELSE registry[i]]

(* process_csv_mappings is called in process p *)
ConcurrentStart(p, gc_name) ==
    /\ sessions[p].pc = "idle"
    /\ sessions' = [sessions EXCEPT ![p] =
                       [IdleSession EXCEPT !.pc = "running",
                                           !.todo = <<gc_name, ABCD>>]]
    /\ UNCHANGED <<now, events, rels, metrics, registry, aliases, projects, imp,
                   opps, procVars, calls, hist, out>>

(* one call of _find_or_create_company_from_csv in process p *)
ConcurrentFindOrCreate(p) ==
    /\ sessions[p].pc = "running"
    /\ sessions[p].todo # <<>>
    /\ \E r \in _find_or_create_company_from_csv(VisibleTo(p), aliases,
                                                  Head(sessions[p].todo)) :
           LET created == Len(r.reg) > Len(registry)
           IN  /\ registry' = IF created
                              THEN Append(registry, r.reg[Len(r.reg)])
                              ELSE registry
               /\ sessions' = [sessions EXCEPT
                                 ![p].todo = Tail(@),
                                 ![p].ids = Append(@, r.id),
                                 ![p].flushed = IF created THEN @ \cup {r.id} ELSE @]
    /\ UNCHANGED <<now, events, rels, metrics, aliases, projects, imp,
                   opps, procVars, calls, hist, out>>

(* on a database with one writer at a time, the first flush of process p
   while the other process holds uncommitted rows can time out: the row and
   then the commit raise, and the import persists nothing *)
ConcurrentLocked(p) ==
    /\ sessions[p].pc = "running"
    /\ sessions[p].todo # <<>>
    /\ sessions[p].flushed = {}
    /\ \E q \in Procs \ {p} : sessions[q].flushed # {}
    /\ NoId \in resolve_company(VisibleTo(p), aliases, Head(sessions[p].todo))
    /\ sessions' = [sessions EXCEPT ![p].pc = "failed"]
    /\ UNCHANGED <<now, events, rels, metrics, registry, aliases, projects, imp,
                   opps, procVars, calls, hist, out>>

(* session.add(relationship) and, the file having one row, session.commit() *)
ConcurrentCommit(p) ==
    /\ sessions[p].pc = "running"
    /\ sessions[p].todo = <<>>
    /\ rels' = Append(rels, [gc_id |-> sessions[p].ids[1], owner_id |-> NoId,
                             sub_id |-> sessions[p].ids[2], project_id |-> NoId,
                             start_date |-> FALSE, end_date |-> FALSE,
                             trade |-> ""])
    /\ sessions' = [sessions EXCEPT ![p].pc = "done",
                                    ![p].flushed = {},
                                    ![p].rel = Len(rels) + 1]
    /\ UNCHANGED <<now, events, metrics, registry, aliases, projects, imp,
                   opps, procVars, calls, hist, out>>

NextConcurrentImport ==
    \E p \in Procs :
        \/ \E gc_name \in ConcurrentNames : ConcurrentStart(p, gc_name)
        \/ ConcurrentFindOrCreate(p)
        \/ ConcurrentLocked(p)
        \/ ConcurrentCommit(p)

SpecConcurrentImport == InitRegistry /\ [][NextConcurrentImport]_vars

(* C25: when two imports that ran side by side have both committed, there
   is exactly one company with the normalized name of the GC both named, and
   the relationship of each import refers to it *)
C25_OneCompanyAfterRace ==
    (\A p \in Procs : sessions[p].pc = "done") =>
        LET same == {i \in 1..Len(registry) : registry[i].normalized_name = ABC}
        IN  /\ Cardinality(same) = 1
            /\ \A p \in Procs :
                   /\ sessions[p].rel # NoId
                   /\ rels[sessions[p].rel].gc_id \in same

(* C26: when a rebuild has returned, every opportunity it created or changed
   has a driver incident with an adapter-assigned severity of at least 15
   that occurred at or after since and at or before until, each where given;
   the other opportunities are as they were before the call *)
C26_OnlySelectedIncidents ==
    \A p \in SeqProcs :
        (pc[p] = "done" /\ hist.cur.valid) =>
            \A i \in 1..Len(opps) :
                (i > Len(hist.start[p]) \/ opps[i] # hist.start[p][i]) =>
                    LET event == events[opps[i].driver_event_id]
                    IN  /\ event.severity_score >= 15
                        /\ window[p][1] # None => event.occurred_on >= window[p][1]
                        /\ window[p][2] # None => event.occurred_on <= window[p][2]

(* a rebuild with until on the day of one incident changed that incident's
   opportunity and left the opportunity of a later incident alone *)
C26_Witness ==
    /\ pc[1] = "done"
    /\ hist.cur.valid
    /\ window[1][1] = None
    /\ window[1][2] # None
    /\ \E i \in 1..Len(hist.start[1]) :
           /\ opps[i] # hist.start[1][i]
           /\ events[opps[i].driver_event_id].occurred_on = window[1][2]
    /\ \E j \in 1..Len(hist.start[1]) :
           /\ opps[j] = hist.start[1][j]
           /\ events[opps[j].driver_event_id].occurred_on > window[1][2]

(* C27: with the configuration in use, an incident classified Serious
   without fatality or catastrophe has a severity component from 10 to 20,
   and one classified Other-Than-Serious with fewer than 5 violations and a
   penalty of at most 50,000 has a severity component of at most 10 *)
C27_SeriousAndMinorSeverity ==
    (Scored /\ ~out.event.fatality /\ ~out.event.catastrophe) =>
        LET severity == out.result.components.severity
        IN  /\ out.event.severity_type = "Serious"
                   => (10 * Scale <= severity /\ severity <= 20 * Scale)
            /\ (out.event.severity_type = "Other-Than-Serious"
                   /\ out.event.violations < 5
                   /\ out.event.penalty <= 50000)
                   => severity <= 10 * Scale

(* C28: with adapter ingestion and the two imports run one after the other
   from an empty registry, no two companies have the same normalized name *)
C28_UniqueNormalizedName ==
    \A i, j \in 1..Len(registry) :
        registry[i].normalized_name = registry[j].normalized_name => i = j

(* a relationship file with the same row twice was imported: the second row
   found the two companies the first row created *)
C28_Witness ==
    /\ imp.pc = "done"
    /\ imp.kind = "sub_relationships"
    /\ Len(imp.batch) = 2
    /\ imp.batch[1] = imp.batch[2]
    /\ imp.results.processed = 2
    /\ Len(registry) = 2
    /\ Len(rels) = 2
    /\ rels[1].gc_id = rels[2].gc_id
    /\ rels[1].sub_id = rels[2].sub_id

(* C29: the step of the relationship import over a row that ends in a row
   error leaves the companies, the projects and the relationships as they
   were before the row *)
C29_FailedRowLeavesNoTrace ==
    [][(/\ imp.pc = "running"
        /\ imp.kind = "sub_relationships"
        /\ imp'.pc = "running"
        /\ Len(imp'.results.errors) > Len(imp.results.errors))
       => (registry' = registry /\ projects' = projects /\ rels' = rels)]_vars

(* the company an opportunity targets *)
TargetOf(row) == IF row.gc_id # NoId THEN row.gc_id ELSE row.owner_id

(* C30: every stored opportunity has a score from 30 to 100 and a target in
   gc_id or owner_id; when a rebuild has returned, every opportunity that
   was there before the call is still there, for the same target and
   incident, and one whose pair scores below 30 at the time of the call has
   the score and the talk-track it had before *)
C30_StoredScoresAndNoDeletion ==
    /\ \A i \in 1..Len(opps) :
           /\ opps[i].propensity_score >= 30 * Scale
           /\ opps[i].propensity_score <= 100 * Scale
           /\ (opps[i].gc_id # NoId \/ opps[i].owner_id # NoId)
    /\ \A p \in SeqProcs :
           (pc[p] = "done" /\ hist.cur.valid /\ hist.cur.now = now) =>
               /\ Len(opps) >= Len(hist.start[p])
               /\ \A i \in 1..Len(hist.start[p]) :
                      LET old == hist.start[p][i]
                          r == calculate_propensity_score(TargetOf(old),
                                                          events[old.driver_event_id])
                      IN  /\ opps[i].gc_id = old.gc_id
                          /\ opps[i].owner_id = old.owner_id
                          /\ opps[i].driver_event_id = old.driver_event_id
                          /\ (~r.raised /\ r.score < 30 * Scale) => opps[i] = old

(* a rebuild after time has passed kept an opportunity whose pair now scores
   below 30 with its earlier score, and changed another one *)
C30_Witness ==
    /\ pc[1] = "done"
    /\ hist.cur.valid
    /\ hist.cur.now = now
    /\ now > Now0
    /\ \E i \in 1..Len(hist.start[1]) :
           LET r == calculate_propensity_score(TargetOf(opps[i]),
                                               events[opps[i].driver_event_id])
           IN  /\ ~r.raised
               /\ r.score < 30 * Scale
               /\ opps[i] = hist.start[1][i]
               /\ opps[i].propensity_score >= 30 * Scale
    /\ \E j \in 1..Len(hist.start[1]) : opps[j] # hist.start[1][j]

====
